---- MODULE Spec2Model ----
(***************************************************************************)
(* EtagCacher (src/api/eTagCacher.ts) and its wiring into the todos API    *)
(* (src/api/todosApi.ts): a keyed table of polling state, the decision     *)
(* taken after every fetch whether to schedule one more refresh, and the   *)
(* timers that carry the scheduled refreshes.                              *)
(***************************************************************************)
EXTENDS Integers, Sequences, FiniteSets, TLC

\* ---------------------------------------------------------------- bounds
MaxData == 1          \* longest record list handed to checkEtag
MaxCfgRetries == 1    \* largest configured options.maxRetries
MaxTimers == 5        \* setTimeout calls in one run of direct calls
MaxMutations == 1     \* mutations in one run of the wired coordinator
MaxKeyTimers == 1     \* setTimeout calls in one run of direct calls for two keys

\* ------------------------------------------------------------- constants
DEFAULT_OPTIONS == [maxRetries |-> 5, retryDelay |-> 1000]
CustomRetryDelay == 2000
TimeStep == 1000

Tag == "Todos"
Keys == {"global"}
Etags == {"", "etag-1"}
Statuses == {"pending", "completed"}

\* records of length at most n
RECURSIVE SeqsUpTo(_)
SeqsUpTo(n) ==
  IF n = 0 THEN {<< >>}
  ELSE SeqsUpTo(n - 1) \cup [1..n -> Statuses]

\* the optional argument data?: K[]
NoData == [given |-> FALSE, items |-> << >>]
DataArgs == {NoData} \cup {[given |-> TRUE, items |-> s] : s \in SeqsUpTo(MaxData)}

\* item.status === 'pending', the predicate the tests and the demo would pass
isStatusPending == {"pending"}

\* the options object: each field may be left out; maxRetries is left out in
\* the empty object only, the one todosCacher is built with
NoOptions == << >>
OptionSets ==
  {NoOptions} \cup
  { m @@ d @@ p :
      m \in {("maxRetries" :> n) : n \in 0..MaxCfgRetries},
      d \in {NoOptions, ("retryDelay" :> CustomRetryDelay)},
      p \in {NoOptions, ("isStatusPending" :> isStatusPending)} }

VARIABLES
  options,     \* this.options
  cache,       \* this.cache: cache key -> {etag?, poll, retry}
  timers,      \* setTimeout callbacks not yet run, oldest first: time left
  nextId,      \* number of setTimeout calls made so far
  dispatched,  \* number of dispatch(invalidateTags([tag])) calls made so far
  sinceStart,  \* per key: setTimeout calls made for it since its last setPoll
  seen,        \* keys that setPoll or checkEtag has been called for
  fetching,    \* keys whose query is in flight
  mutations,   \* number of mutations fulfilled so far
  last         \* the last call: operation, arguments, the entry before it, result

vars == <<options, cache, timers, nextId, dispatched, sinceStart, seen, fetching, mutations, last>>

\* CacheKey that leaves the key out: `${this.tag}`
CacheKeyTagOnly(key) == <<Tag, "">>

\* `${this.tag}.${key}`
CacheKey(key) == <<Tag, key>>

\* this.cache[cacheKey] is truthy
HasEntry(c, key) == CacheKey(key) \in DOMAIN c

\* MaxRetriesOf with || in place of ??: a configured 0 gives the default
MaxRetriesOrDefault(o) ==
  IF "maxRetries" \in DOMAIN o /\ o["maxRetries"] # 0 THEN o["maxRetries"]
  ELSE DEFAULT_OPTIONS.maxRetries

\* this.options.maxRetries ?? DEFAULT_OPTIONS.maxRetries
MaxRetriesOf(o) ==
  IF "maxRetries" \in DOMAIN o THEN o["maxRetries"] ELSE DEFAULT_OPTIONS.maxRetries

\* RetryDelayOf that ignores the configured delay
RetryDelayIgnored(o) == DEFAULT_OPTIONS.retryDelay

\* this.options.retryDelay ?? DEFAULT_OPTIONS.retryDelay
RetryDelayOf(o) ==
  IF "retryDelay" \in DOMAIN o THEN o["retryDelay"] ELSE DEFAULT_OPTIONS.retryDelay

\* EtagMatches that takes a missing etag for the empty string
EtagMatchesMissingAsEmpty(entry, etag) ==
  etag = (IF "etag" \in DOMAIN entry THEN entry["etag"] ELSE "")

\* etag === this.cache[...].etag: an entry made by setPoll alone has no etag
EtagMatches(entry, etag) ==
  "etag" \in DOMAIN entry /\ entry["etag"] = etag

\* SomePending with data.every in place of data.some
EveryPending(o, data) ==
  /\ data.given
  /\ "isStatusPending" \in DOMAIN o
  /\ \A i \in 1..Len(data.items) : data.items[i] \in o["isStatusPending"]

\* data && this.options.isStatusPending && data.some(this.options.isStatusPending)
SomePending(o, data) ==
  /\ data.given
  /\ "isStatusPending" \in DOMAIN o
  /\ \E i \in 1..Len(data.items) : data.items[i] \in o["isStatusPending"]

\* ShouldPoll without the test of the poll flag
ShouldPollIgnoresFlag(c, o, key, etag, data) ==
  /\ HasEntry(c, key)
  /\ (EtagMatches(c[CacheKey(key)], etag) \/ SomePending(o, data))
  /\ c[CacheKey(key)]["retry"] < MaxRetriesOf(o)

\* ShouldPoll with the retry limit compared by <= (one attempt too many)
ShouldPollOffByOne(c, o, key, etag, data) ==
  /\ HasEntry(c, key)
  /\ c[CacheKey(key)]["poll"]
  /\ (EtagMatches(c[CacheKey(key)], etag) \/ SomePending(o, data))
  /\ c[CacheKey(key)]["retry"] <= MaxRetriesOf(o)

\* the condition of the if in checkEtag
ShouldPoll(c, o, key, etag, data) ==
  /\ HasEntry(c, key)
  /\ c[CacheKey(key)]["poll"]
  /\ (EtagMatches(c[CacheKey(key)], etag) \/ SomePending(o, data))
  /\ c[CacheKey(key)]["retry"] < MaxRetriesOf(o)

\* checkEtag whose else branch keeps the retry count of the entry
checkEtagKeepsRetry(c, o, key, etag, data) ==
  IF ShouldPoll(c, o, key, etag, data)
  THEN [c EXCEPT ![CacheKey(key)] =
          [f \in DOMAIN @ |-> IF f = "retry" THEN @[f] + 1 ELSE @[f]]]
  ELSE (CacheKey(key) :>
          [etag |-> etag, poll |-> FALSE,
           retry |-> IF HasEntry(c, key) THEN c[CacheKey(key)]["retry"] ELSE 0]) @@ c

\* checkEtag that stores the received etag when it goes on polling too
checkEtagStoresEtag(c, o, key, etag, data) ==
  IF ShouldPoll(c, o, key, etag, data)
  THEN [c EXCEPT ![CacheKey(key)] =
          [etag |-> etag, poll |-> TRUE, retry |-> @["retry"] + 1]]
  ELSE (CacheKey(key) :> [etag |-> etag, poll |-> FALSE, retry |-> 0]) @@ c

\* checkEtag whose else branch writes poll: true
checkEtagElsePolls(c, o, key, etag, data) ==
  IF ShouldPoll(c, o, key, etag, data)
  THEN [c EXCEPT ![CacheKey(key)] =
          [f \in DOMAIN @ |-> IF f = "retry" THEN @[f] + 1 ELSE @[f]]]
  ELSE (CacheKey(key) :> [etag |-> etag, poll |-> TRUE, retry |-> 0]) @@ c

\* the table after checkEtag
checkEtag(c, o, key, etag, data) ==
  IF ShouldPoll(c, o, key, etag, data)
  THEN [c EXCEPT ![CacheKey(key)] =
          [f \in DOMAIN @ |-> IF f = "retry" THEN @[f] + 1 ELSE @[f]]]
  ELSE (CacheKey(key) :> [etag |-> etag, poll |-> FALSE, retry |-> 0]) @@ c

\* scheduleRefresh that never calls setTimeout
scheduleNothing(ts, c, o, key, etag, data) == ts

\* the timers after checkEtag: setTimeout(..., retryDelay)
scheduleRefresh(ts, c, o, key, etag, data) ==
  IF ShouldPoll(c, o, key, etag, data) THEN Append(ts, RetryDelayOf(o)) ELSE ts

\* setPoll without the spread of the existing entry
setPollDropsEntry(c, key) ==
  (CacheKey(key) :> [poll |-> TRUE, retry |-> 0]) @@ c

\* the table after setPoll
setPoll(c, key) ==
  LET old == IF HasEntry(c, key) THEN c[CacheKey(key)] ELSE << >>
  IN (CacheKey(key) :> (("poll" :> TRUE) @@ ("retry" :> 0) @@ old)) @@ c

\* stopPolling that deletes the entry
stopPollingDeletes(c, key) ==
  [ck \in DOMAIN c \ {CacheKey(key)} |-> c[ck]]

\* stopPolling that makes an entry for a key that has none
stopPollingCreates(c, key) ==
  IF HasEntry(c, key)
  THEN [c EXCEPT ![CacheKey(key)] =
          [f \in DOMAIN @ |-> IF f = "poll" THEN FALSE ELSE @[f]]]
  ELSE (CacheKey(key) :> [etag |-> "", poll |-> FALSE, retry |-> 0]) @@ c

\* stopPolling that also resets the retry count
stopPollingResetsRetry(c, key) ==
  IF HasEntry(c, key)
  THEN [c EXCEPT ![CacheKey(key)] =
          [f \in DOMAIN @ |-> IF f = "poll" THEN FALSE
                              ELSE IF f = "retry" THEN 0 ELSE @[f]]]
  ELSE c

\* the table after stopPolling
stopPolling(c, key) ==
  IF HasEntry(c, key)
  THEN [c EXCEPT ![CacheKey(key)] =
          [f \in DOMAIN @ |-> IF f = "poll" THEN FALSE ELSE @[f]]]
  ELSE c

\* getPollStatus that returns null for an entry that is not polling
getPollStatusNullWhenIdle(c, key) ==
  IF ~HasEntry(c, key) \/ ~c[CacheKey(key)]["poll"] THEN {}
  ELSE {[polling |-> c[CacheKey(key)]["poll"], retries |-> c[CacheKey(key)]["retry"]]}

\* what getPollStatus returns: no element for null
getPollStatus(c, key) ==
  IF ~HasEntry(c, key) THEN {}
  ELSE {[polling |-> c[CacheKey(key)]["poll"], retries |-> c[CacheKey(key)]["retry"]]}

\* the entry of key as a set of at most one element
EntryOf(c, key) == IF HasEntry(c, key) THEN {c[CacheKey(key)]} ELSE {}

Call(op, key, etag, data, c, result) ==
  [op |-> op, key |-> key, etag |-> etag, data |-> data,
   before |-> EntryOf(c, key), result |-> result]

Init ==
  /\ options \in OptionSets
  /\ cache = << >>
  /\ timers = << >>
  /\ nextId = 0
  /\ dispatched = 0
  /\ sinceStart = [k \in Keys |-> 0]
  /\ seen = {}
  /\ fetching = {}
  /\ mutations = 0
  /\ last = Call("new", "", "", NoData, cache, {})

\* the effect of one checkEtag call on the coordinator and the timer queue
CheckEtagEffect(key, etag, data) ==
  /\ cache' = checkEtag(cache, options, key, etag, data)
  /\ timers' = scheduleRefresh(timers, cache, options, key, etag, data)
  /\ nextId' = Len(timers') - Len(timers) + nextId
  /\ sinceStart' = [sinceStart EXCEPT ![key] = Len(timers') - Len(timers) + @]
  /\ seen' = seen \cup {key}
  /\ last' = Call("checkEtag", key, etag, data, cache, {})

SetPollEffect(key) ==
  /\ cache' = setPoll(cache, key)
  /\ sinceStart' = [sinceStart EXCEPT ![key] = 0]
  /\ seen' = seen \cup {key}
  /\ last' = Call("setPoll", key, "", NoData, cache, {})

\* a direct call of checkEtag; a run makes at most MaxTimers setTimeout calls
CheckEtagCall(key, etag, data) ==
  /\ ShouldPoll(cache, options, key, etag, data) => nextId < MaxTimers
  /\ CheckEtagEffect(key, etag, data)
  /\ UNCHANGED <<options, dispatched, fetching, mutations>>

\* a direct call of setPoll
SetPollCall(key) ==
  /\ SetPollEffect(key)
  /\ UNCHANGED <<options, timers, nextId, dispatched, fetching, mutations>>

\* a stopPolling that clears the timers of the refreshes still waiting
StopPollingCancels(key) ==
  /\ cache' = stopPolling(cache, key)
  /\ timers' = << >>
  /\ last' = Call("stopPolling", key, "", NoData, cache, {})
  /\ UNCHANGED <<options, nextId, dispatched, sinceStart, seen, fetching, mutations>>

StopPollingCall(key) ==
  /\ cache' = stopPolling(cache, key)
  /\ last' = Call("stopPolling", key, "", NoData, cache, {})
  /\ UNCHANGED <<options, timers, nextId, dispatched, sinceStart, seen, fetching, mutations>>

GetPollStatusCall(key) ==
  /\ last' = Call("getPollStatus", key, "", NoData, cache, getPollStatus(cache, key))
  /\ UNCHANGED <<options, cache, timers, nextId, dispatched, sinceStart, seen, fetching, mutations>>

\* getTodos.onQueryStarted: the query is fulfilled and checkEtag is called
QueryFulfilled(key, etag, data) ==
  /\ key \in fetching
  /\ fetching' = fetching \ {key}
  /\ CheckEtagEffect(key, etag, data)
  /\ UNCHANGED <<options, dispatched, mutations>>

\* a mutation is fulfilled: invalidatesTags refetches the queries of the tag,
\* onQueryStarted calls setPoll, and so does the component that awaited the
\* mutation, before the refetch can be fulfilled
MutationFulfilled(key) ==
  /\ mutations < MaxMutations
  /\ mutations' = mutations + 1
  /\ SetPollEffect(key)
  /\ fetching' = Keys
  /\ UNCHANGED <<options, timers, nextId, dispatched>>

\* time passes, no further than the next timer
Advance ==
  /\ timers # << >>
  /\ \A i \in 1..Len(timers) : timers[i] >= TimeStep
  /\ timers' = [i \in 1..Len(timers) |-> timers[i] - TimeStep]
  /\ UNCHANGED <<options, cache, nextId, dispatched, sinceStart, seen, fetching, mutations, last>>

\* a callback that also stops the polling of every key when it runs
TimerFiresStopsPolling ==
  /\ timers # << >>
  /\ Head(timers) = 0
  /\ timers' = Tail(timers)
  /\ dispatched' = dispatched + 1
  /\ cache' = [ck \in DOMAIN cache |->
                 [f \in DOMAIN cache[ck] |->
                    IF f = "poll" THEN FALSE ELSE cache[ck][f]]]
  /\ UNCHANGED <<options, nextId, sinceStart, seen, mutations, last>>

\* the oldest expired timer runs its callback:
\* dispatch(this.api.util.invalidateTags([this.tag]))
TimerFires ==
  /\ timers # << >>
  /\ Head(timers) = 0
  /\ timers' = Tail(timers)
  /\ dispatched' = dispatched + 1
  /\ UNCHANGED <<options, cache, nextId, sinceStart, seen, mutations, last>>

\* dispatch is the caller's: nothing else happens in the coordinator
Fire == TimerFires /\ UNCHANGED fetching

\* dispatch is the store's: the queries that provide the tag are fetched again
Refetch == TimerFires /\ fetching' = Keys

\* the coordinator used directly, as its tests do
Next ==
  \/ \E k \in Keys, e \in Etags, d \in DataArgs : CheckEtagCall(k, e, d)
  \/ \E k \in Keys : SetPollCall(k)
  \/ \E k \in Keys : StopPollingCall(k)
  \/ \E k \in Keys : GetPollStatusCall(k)
  \/ Advance
  \/ Fire

Spec == Init /\ [][Next]_vars

\* the coordinator wired into the todos API: the component is mounted and its
\* query is in flight
InitWired ==
  /\ options \in OptionSets
  /\ cache = << >>
  /\ timers = << >>
  /\ nextId = 0
  /\ dispatched = 0
  /\ sinceStart = [k \in Keys |-> 0]
  /\ seen = {}
  /\ fetching = Keys
  /\ mutations = 0
  /\ last = Call("new", "", "", NoData, cache, {})

NextWired ==
  \/ \E k \in Keys, e \in Etags, d \in DataArgs : QueryFulfilled(k, e, d)
  \/ \E k \in Keys : MutationFulfilled(k)
  \/ \E k \in Keys : StopPollingCall(k)
  \/ \E k \in Keys : GetPollStatusCall(k)
  \/ Advance
  \/ Refetch

\* timers expire, expired timers run, and a query in flight is fulfilled
Fairness ==
  /\ WF_vars(Advance)
  /\ WF_vars(Refetch)
  /\ \A k \in Keys : WF_vars(\E e \in Etags, d \in DataArgs : QueryFulfilled(k, e, d))

LiveSpec == InitWired /\ [][NextWired]_vars /\ Fairness

\* getTodos.onQueryStarted as the demo has it: the response carries the todos
\* and the ETag, and checkEtag is called with the ETag alone
GetTodosFulfilled(key, etag, todos) ==
  /\ key \in fetching
  /\ fetching' = fetching \ {key}
  /\ cache' = checkEtag(cache, options, key, etag, NoData)
  /\ timers' = scheduleRefresh(timers, cache, options, key, etag, NoData)
  /\ nextId' = Len(timers') - Len(timers) + nextId
  /\ sinceStart' = [sinceStart EXCEPT ![key] = Len(timers') - Len(timers) + @]
  /\ seen' = seen \cup {key}
  /\ last' = Call("getTodos", key, etag, [given |-> TRUE, items |-> todos], cache, {})
  /\ UNCHANGED <<options, dispatched, mutations>>

\* the demo: todosCacher is built without options, the component is mounted
\* and its query is in flight
InitDemo ==
  /\ options = NoOptions
  /\ cache = << >>
  /\ timers = << >>
  /\ nextId = 0
  /\ dispatched = 0
  /\ sinceStart = [k \in Keys |-> 0]
  /\ seen = {}
  /\ fetching = Keys
  /\ mutations = 0
  /\ last = Call("new", "", "", NoData, cache, {})

NextDemo ==
  \/ \E k \in Keys, e \in Etags, t \in SeqsUpTo(MaxData) : GetTodosFulfilled(k, e, t)
  \/ \E k \in Keys : MutationFulfilled(k)
  \/ \E k \in Keys : GetPollStatusCall(k)
  \/ Advance
  \/ Refetch

DemoSpec == InitDemo /\ [][NextDemo]_vars

\* one coordinator used for two keys, the demo's and the tests'
TwoKeys == Keys \cup {"test-key"}

\* built without options, or with a retry limit and a pending predicate
TwoKeysOptionSets ==
  {NoOptions,
   ("maxRetries" :> MaxCfgRetries) @@ ("isStatusPending" :> isStatusPending)}

InitTwoKeys ==
  /\ options \in TwoKeysOptionSets
  /\ cache = << >>
  /\ timers = << >>
  /\ nextId = 0
  /\ dispatched = 0
  /\ sinceStart = [k \in TwoKeys |-> 0]
  /\ seen = {}
  /\ fetching = {}
  /\ mutations = 0
  /\ last = Call("new", "", "", NoData, cache, {})

NextTwoKeys ==
  \/ \E k \in TwoKeys, e \in Etags, d \in DataArgs :
       /\ ShouldPoll(cache, options, k, e, d) => nextId < MaxKeyTimers
       /\ CheckEtagCall(k, e, d)
  \/ \E k \in TwoKeys : SetPollCall(k)
  \/ \E k \in TwoKeys : StopPollingCall(k)
  \/ \E k \in TwoKeys : GetPollStatusCall(k)
  \/ Advance
  \/ Fire

TwoKeysSpec == InitTwoKeys /\ [][NextTwoKeys]_vars

\* ------------------------------------------------------------ properties
Exists(k) == CacheKey(k) \in DOMAIN cache
Entry(k) == cache[CacheKey(k)]
Polling(k) == Exists(k) /\ Entry(k).poll
HasMarker(entry) == "etag" \in DOMAIN entry

\* maxRetries, 5 unless configured
Limit ==
  IF "maxRetries" \in DOMAIN options THEN options.maxRetries
  ELSE DEFAULT_OPTIONS.maxRetries

MarkerUnchanged(k, e) == HasMarker(Entry(k)) /\ Entry(k).etag = e

HasPendingRecord(d) ==
  /\ d.given
  /\ "isStatusPending" \in DOMAIN options
  /\ \E i \in DOMAIN d.items : d.items[i] = "pending"

UnderRetryLimit(k) == Entry(k).retry < Limit

\* the step adds one to the retry count of k and schedules one refresh
Continues(k) ==
  /\ cache'[CacheKey(k)].retry = Entry(k).retry + 1
  /\ Len(timers') = Len(timers) + 1

\* the step leaves k at {e, false, 0}, schedules nothing and dispatches nothing
Terminates(k, e) ==
  /\ cache'[CacheKey(k)] = [etag |-> e, poll |-> FALSE, retry |-> 0]
  /\ timers' = timers
  /\ nextId' = nextId
  /\ dispatched' = dispatched

SameMarker(old, new) ==
  /\ HasMarker(old) <=> HasMarker(new)
  /\ HasMarker(old) => new.etag = old.etag

\* the step is a call of checkEtag: a call that changes anything leaves its own
\* record in last, and the timers leave last alone
CheckEtagStep == last' # last /\ last'.op = "checkEtag"

\* F(k, e, d) for the arguments of the call the step makes
OfCall(F(_, _, _)) == F(last'.key, last'.etag, last'.data)



\* what C1 says of the call checkEtag(dispatch, k, e, d)
C1_ContinueIffOf(k, e, d) ==
  Polling(k) =>
    IF (MarkerUnchanged(k, e) \/ HasPendingRecord(d)) /\ UnderRetryLimit(k)
    THEN Continues(k)
    ELSE /\ Len(timers') = Len(timers)
         /\ cache'[CacheKey(k)].retry # Entry(k).retry + 1

\* C1: on a polling entry checkEtag continues (retry count plus one, a refresh
\* scheduled) if and only if (the marker is unchanged or a supplied record is
\* pending under a configured isStatusPending) and the retry count is below
\* maxRetries; otherwise it schedules nothing and does not add to the count.
C1_ContinueIff ==
  [][CheckEtagStep => OfCall(C1_ContinueIffOf)]_vars

C1_Witness ==
  /\ last.op = "checkEtag"
  /\ Polling(last.key)
  /\ \E b \in last.before : b.poll /\ Entry(last.key).retry = b.retry + 1
  /\ timers # << >>

\* C2 as stated: every entry with polling = false has retryCount = 0.
C2_StoppedHasNoRetries ==
  \A k \in Keys : (Exists(k) /\ ~Entry(k).poll) => Entry(k).retry = 0

\* the entry of k has polling = false and a retry count other than 0
Stale(k) == Exists(k) /\ ~Entry(k).poll /\ Entry(k).retry # 0

\* C2 amended: an entry comes to have polling = false with a retry count other
\* than 0 only by stopPolling on a polling entry, which keeps the count it had.
C2_OnlyStopLeavesRetries ==
  [][\A k \in Keys :
       (~Stale(k) /\ Stale(k)') =>
         /\ last'.op = "stopPolling" /\ last'.key = k
         /\ Polling(k)
         /\ cache'[CacheKey(k)].retry = Entry(k).retry]_vars

C2_Witness ==
  /\ last.op = "stopPolling"
  /\ Stale(last.key)
  /\ \E b \in last.before : b.poll /\ b.retry = Entry(last.key).retry

\* C3: every retry count is between 0 and maxRetries, and a checkEtag on a
\* polling entry whose count is already maxRetries leaves polling = false and
\* retryCount = 0.
C3_RetryBounded ==
  \A k \in Keys :
    Exists(k) =>
      /\ Entry(k).retry \in 0..Limit
      /\ (/\ last.op = "checkEtag"
          /\ last.key = k
          /\ \E b \in last.before : b.poll /\ b.retry + 1 > Limit)
         => (~Entry(k).poll /\ Entry(k).retry = 0)

C3_Witness ==
  /\ last.op = "checkEtag"
  /\ Limit > 0
  /\ \E b \in last.before : b.poll /\ b.retry = Limit
  /\ ~Polling(last.key)

\* C4: between one setPoll of a key and the next, checkEtag schedules at most
\* maxRetries refreshes for the key.
C4_BoundedAttempts ==
  \A k \in Keys : sinceStart[k] <= Limit

C4_Witness ==
  \E k \in Keys :
    /\ Limit > 0
    /\ sinceStart[k] = Limit
    /\ nextId > sinceStart[k]
    /\ ~Polling(k)

\* C5: with fair timers and fetches, a polling entry stops polling unless
\* setPoll is called again, and while it is not polling and setPoll is not
\* called no refresh is scheduled for it.
C5_PollingEnds ==
  /\ \A k \in Keys, n \in 0..MaxMutations :
       (Polling(k) /\ mutations = n) ~> (~Polling(k) \/ mutations > n)
  /\ [][\A k \in Keys :
          (~Polling(k) /\ mutations' = mutations) => sinceStart'[k] = sinceStart[k]]_vars

C5_Witness ==
  /\ last.op = "checkEtag"
  /\ Limit > 0
  /\ \E b \in last.before :
       b.poll /\ b.retry = Limit /\ HasMarker(b) /\ b.etag = last.etag
  /\ ~Polling(last.key)
  /\ dispatched = nextId

\* what C6 says of the call checkEtag(dispatch, k, e, d)
C6_ContinueFrameOf(k, e, d) ==
  (/\ Polling(k)
   /\ MarkerUnchanged(k, e) \/ HasPendingRecord(d)
   /\ UnderRetryLimit(k)) =>
    /\ cache'[CacheKey(k)].retry = Entry(k).retry + 1
    /\ cache'[CacheKey(k)].poll = Entry(k).poll
    /\ SameMarker(Entry(k), cache'[CacheKey(k)])
    /\ Len(timers') = Len(timers) + 1
    /\ SubSeq(timers', 1, Len(timers)) = timers
    /\ nextId' = nextId + 1
    /\ dispatched' = dispatched

\* C6: a continuing checkEtag adds exactly 1 to the retry count, leaves the
\* stored marker and the poll flag as they were, puts exactly one refresh on
\* the timer queue, and has dispatched nothing when it returns.
C6_ContinueFrame ==
  [][CheckEtagStep => OfCall(C6_ContinueFrameOf)]_vars

C6_Witness ==
  /\ last.op = "checkEtag"
  /\ Polling(last.key)
  /\ \E b \in last.before :
       /\ Entry(last.key).retry = b.retry + 1
       /\ HasMarker(b) /\ b.etag # last.etag
       /\ SameMarker(b, Entry(last.key))
  /\ timers # << >>
  /\ timers[Len(timers)] > 0

\* what C7 says of the call checkEtag(dispatch, k, e, d)
C7_FirstObservationOf(k, e, d) ==
  (~Exists(k)) => Terminates(k, e)

\* C7: checkEtag on a key without an entry creates {etag, poll: false,
\* retry: 0} and neither schedules nor dispatches a refresh, whatever the
\* records and the options.
C7_FirstObservation ==
  [][CheckEtagStep => OfCall(C7_FirstObservationOf)]_vars

C7_Witness ==
  /\ last.op = "checkEtag"
  /\ last.before = {}
  /\ Exists(last.key)
  /\ Entry(last.key) = [etag |-> last.etag, poll |-> FALSE, retry |-> 0]
  /\ "isStatusPending" \in DOMAIN options

\* what C8 says of the call checkEtag(dispatch, k, e, d)
C8_TerminalOutcomeOf(k, e, d) ==
  (/\ Polling(k)
   /\ \/ Entry(k).retry >= Limit
      \/ ~MarkerUnchanged(k, e) /\ ~HasPendingRecord(d)) =>
    Terminates(k, e)

\* C8: a checkEtag on a polling entry that does not continue (the retry count
\* has reached maxRetries, or the marker changed and no record is pending)
\* leaves exactly {etag, poll: false, retry: 0} and schedules no refresh.
C8_TerminalOutcome ==
  [][CheckEtagStep => OfCall(C8_TerminalOutcomeOf)]_vars

C8_Witness ==
  /\ last.op = "checkEtag"
  /\ \E b \in last.before :
       b.poll /\ HasMarker(b) /\ b.etag # last.etag /\ b.retry \in 1..(Limit - 1)
  /\ Entry(last.key) = [etag |-> last.etag, poll |-> FALSE, retry |-> 0]

\* what C9 says of the call checkEtag(dispatch, k, e, d)
C9_PendingOverridesMarkerOf(k, e, d) ==
  (/\ "isStatusPending" \in DOMAIN options
   /\ Polling(k)
   /\ UnderRetryLimit(k)
   /\ ~MarkerUnchanged(k, e)) =>
    IF d.given /\ \E i \in DOMAIN d.items : d.items[i] = "pending"
    THEN /\ Continues(k)
         /\ cache'[CacheKey(k)].poll
         /\ SameMarker(Entry(k), cache'[CacheKey(k)])
    ELSE Terminates(k, e)

\* C9: with isStatusPending configured, a polling entry under the retry limit
\* and a marker other than the stored one, checkEtag continues and keeps the
\* stored marker when a supplied record is pending, and ends at {new marker,
\* poll: false, retry: 0} when the records are absent, empty or none pending.
C9_PendingOverridesMarker ==
  [][CheckEtagStep => OfCall(C9_PendingOverridesMarkerOf)]_vars

C9_Witness ==
  /\ last.op = "checkEtag"
  /\ "isStatusPending" \in DOMAIN options
  /\ Polling(last.key)
  /\ \E b \in last.before :
       /\ HasMarker(b) /\ b.etag # last.etag
       /\ Entry(last.key).etag = b.etag
       /\ Entry(last.key).retry = b.retry + 1

\* C10: setPoll leaves the entry with poll = true and retry = 0; the marker of
\* an entry that existed is as it was, whatever its poll flag and retry count
\* were, and a new entry has no marker.
C10_SetPollFrame ==
  last.op = "setPoll" =>
    /\ Exists(last.key)
    /\ Entry(last.key).poll
    /\ Entry(last.key).retry = 0
    /\ last.before = {} => ~HasMarker(Entry(last.key))
    /\ \A b \in last.before : SameMarker(b, Entry(last.key))

C10_Witness ==
  /\ last.op = "setPoll"
  /\ \E b \in last.before : ~b.poll /\ b.retry > 0 /\ HasMarker(b)
  /\ HasMarker(Entry(last.key))

\* C11: stopPolling on a key that has an entry leaves the entry with
\* poll = false and with the retry count and the marker it had before the
\* call: the count is not reset.
C11_StopKeepsEntry ==
  last.op = "stopPolling" =>
    \A b \in last.before :
      /\ Exists(last.key)
      /\ ~Entry(last.key).poll
      /\ Entry(last.key).retry = b.retry
      /\ SameMarker(b, Entry(last.key))

C11_Witness ==
  /\ last.op = "stopPolling"
  /\ \E b \in last.before :
       /\ b.poll /\ b.retry > 0 /\ HasMarker(b)
       /\ Entry(last.key) = [etag |-> b.etag, poll |-> FALSE, retry |-> b.retry]

\* the step is a call of stopPolling that leaves its record in last
StopPollingStep == last' # last /\ last'.op = "stopPolling"

\* C12: stopPolling on a key without an entry leaves the whole table as it
\* was: the key still has no entry and getPollStatus still returns null.
C12_StopMissingIsNoOp ==
  [][(StopPollingStep /\ ~Exists(last'.key)) =>
       /\ cache' = cache
       /\ CacheKey(last'.key) \notin DOMAIN cache'
       /\ getPollStatus(cache', last'.key) = {}]_vars

C12_Witness ==
  /\ last.op = "stopPolling"
  /\ last.before = {}
  /\ ~Exists(last.key)
  /\ getPollStatus(cache, last.key) = {}

\* the step is a call of getPollStatus that leaves its record in last
GetPollStatusStep == last' # last /\ last'.op = "getPollStatus"

\* what C13 says of the call getPollStatus(k) and of what it returned
C13_StatusIsPureReadOf(k, returned) ==
  /\ Exists(k) =>
       returned = {[polling |-> Entry(k).poll, retries |-> Entry(k).retry]}
  /\ returned = {} <=> k \notin seen
  /\ cache' = cache
  /\ timers' = timers
  /\ nextId' = nextId
  /\ dispatched' = dispatched

\* C13: getPollStatus returns the poll flag and the retry count the entry has
\* at the call, returns null exactly when neither setPoll nor checkEtag was
\* ever called for the key, and changes neither the table nor the timers.
C13_StatusIsPureRead ==
  [][GetPollStatusStep => C13_StatusIsPureReadOf(last'.key, last'.result)]_vars

C13_Witness ==
  /\ last.op = "getPollStatus"
  /\ \E r \in last.result : ~r.polling /\ r.retries > 0
  /\ last.key \in seen
  /\ timers # << >>

\* retryDelay, 1000 unless configured
Delay ==
  IF "retryDelay" \in DOMAIN options THEN options.retryDelay
  ELSE DEFAULT_OPTIONS.retryDelay

\* every refresh scheduled so far is either waiting or was dispatched once, and
\* no waiting refresh is overdue or has longer to wait than retryDelay
C14_EachRefreshOnce ==
  /\ dispatched + Len(timers) = nextId
  /\ \A i \in DOMAIN timers : timers[i] \in 0..Delay

\* a refresh starts with retryDelay to wait, waits less only as time passes,
\* and is dispatched, once, only when it has nothing left to wait
C14_RefreshStep ==
  /\ (CheckEtagStep /\ Len(timers') > Len(timers)) => timers' = Append(timers, Delay)
  /\ (timers' # timers /\ Len(timers') = Len(timers)) =>
       /\ dispatched' = dispatched
       /\ \A i \in DOMAIN timers : timers'[i] = timers[i] - TimeStep
  /\ dispatched' # dispatched =>
       /\ timers # << >>
       /\ Head(timers) = 0
       /\ timers' = Tail(timers)
       /\ dispatched' = dispatched + 1

\* C14: a refresh scheduled by a continuing checkEtag is dispatched exactly
\* once, not before retryDelay (configured, else 1000) has passed since the
\* call, and time does not pass beyond retryDelay without it being dispatched.
C14_RefreshAfterDelay ==
  /\ []C14_EachRefreshOnce
  /\ [][C14_RefreshStep]_vars

C14_Witness ==
  /\ "retryDelay" \in DOMAIN options
  /\ Delay = 2 * TimeStep
  /\ nextId = 1
  /\ dispatched = 1
  /\ timers = << >>

\* every fetched todo is completed, and there is one
AllCompleted(todos) ==
  /\ todos # << >>
  /\ \A i \in DOMAIN todos : todos[i] = "completed"

\* C15: in the demo, a fetch that finds the entry polling and returns a new
\* ETag, or todos that are all completed, leaves the entry not polling.
C15_DemoPollingStops ==
  (/\ last.op = "getTodos"
   /\ \E b \in last.before :
        /\ b.poll
        /\ \/ ~(HasMarker(b) /\ b.etag = last.etag)
           \/ AllCompleted(last.data.items))
  => ~Polling(last.key)

\* the step is a call that leaves its record in last and the entry not polling
\* or freshly started: stopPolling, setPoll or a checkEtag that does not continue
InterveningStep ==
  /\ last' # last
  /\ \/ last'.op \in {"stopPolling", "setPoll"}
     \/ last'.op = "checkEtag" /\ ~cache'[CacheKey(last'.key)].poll

\* C16: no scheduled refresh is ever cancelled: stopPolling, setPoll and a
\* checkEtag that does not continue leave every waiting refresh waiting with
\* the time it had left, no call takes one off the queue, and a refresh leaves
\* the queue only by being dispatched, once, when it has nothing left to wait.
C16_NeverCancelled ==
  [][/\ InterveningStep => (timers' = timers /\ dispatched' = dispatched)
     /\ last' # last =>
          (Len(timers') >= Len(timers) /\ SubSeq(timers', 1, Len(timers)) = timers)
     /\ Len(timers') < Len(timers) =>
          /\ Head(timers) = 0
          /\ timers' = Tail(timers)
          /\ dispatched' = dispatched + 1]_vars

C16_Witness ==
  /\ last.op = "checkEtag"
  /\ \E b \in last.before : b.poll /\ b.retry > 0
  /\ ~Polling(last.key)
  /\ timers # << >>
  /\ Head(timers) = 0

\* C17: the step in which a refresh callback runs dispatches one invalidation
\* and leaves the table, every marker, poll flag and retry count, as it was,
\* whatever calls came between the scheduling and the firing.
C17_FiringLeavesTable ==
  [][dispatched' # dispatched =>
       /\ dispatched' = dispatched + 1
       /\ cache' = cache
       /\ seen' = seen
       /\ last' = last]_vars

C17_Witness ==
  /\ dispatched = nextId
  /\ dispatched > 1
  /\ last.op = "stopPolling"
  /\ \E b \in last.before : b.poll /\ HasMarker(b) /\ b.retry = dispatched
  /\ Entry(last.key).retry = dispatched

\* what C18 says of the call checkEtag(dispatch, k, e, d)
C18_IdleOverwriteOf(k, e, d) ==
  (Exists(k) /\ ~Entry(k).poll) => Terminates(k, e)

\* C18: checkEtag on an entry that is not polling leaves {etag, poll: false,
\* retry: 0} and schedules nothing, also when the marker is unchanged, a
\* record is pending, or stopPolling left a retry count other than 0.
C18_IdleOverwrite ==
  [][CheckEtagStep => OfCall(C18_IdleOverwriteOf)]_vars

C18_Witness ==
  /\ last.op = "checkEtag"
  /\ \E b \in last.before :
       ~b.poll /\ b.retry \in 1..(Limit - 1) /\ HasMarker(b) /\ b.etag = last.etag
  /\ Entry(last.key) = [etag |-> last.etag, poll |-> FALSE, retry |-> 0]

\* the marker stored for k in table c: no element when there is none
StoredMarker(c, k) ==
  IF CacheKey(k) \in DOMAIN c /\ HasMarker(c[CacheKey(k)])
  THEN {c[CacheKey(k)].etag} ELSE {}

\* C19: the marker stored for a key changes only in a checkEtag call for that
\* key, and then to the etag argument of the call; setPoll, stopPolling,
\* getPollStatus and the firing of a refresh change no stored marker.
C19_MarkerOnlyByCheckEtag ==
  [][\A k \in Keys :
       StoredMarker(cache', k) # StoredMarker(cache, k) =>
         /\ last' # last
         /\ last'.op = "checkEtag"
         /\ last'.key = k
         /\ StoredMarker(cache', k) = {last'.etag}]_vars

C19_Witness ==
  /\ last.op = "checkEtag"
  /\ dispatched > 0
  /\ \E b \in last.before : b.poll /\ HasMarker(b) /\ b.etag # last.etag
  /\ StoredMarker(cache, last.key) = {last.etag}

\* C20: the keys that have an entry only grow: an entry comes to exist only in
\* a setPoll or checkEtag call for its key, and no step removes an entry, so
\* getPollStatus never goes back to null for a key.
C20_KeysOnlyGrow ==
  [][\A k \in Keys :
       /\ Exists(k) => CacheKey(k) \in DOMAIN cache'
       /\ getPollStatus(cache, k) # {} => getPollStatus(cache', k) # {}
       /\ (~Exists(k) /\ CacheKey(k) \in DOMAIN cache') =>
            /\ last' # last
            /\ last'.op \in {"setPoll", "checkEtag"}
            /\ last'.key = k]_vars

C20_Witness ==
  /\ last.op = "getPollStatus"
  /\ last.result # {}
  /\ \E b \in last.before : ~b.poll /\ b.retry > 0
  /\ Exists(last.key)
  /\ dispatched > 0
  /\ timers = << >>

\* C21: while an entry polls, its retry count is the number of checkEtag calls
\* that continued since setPoll; a checkEtag with the stored marker on a
\* polling entry below maxRetries keeps it polling with one more retry, so the
\* maxRetries-th such call leaves poll = true and retry = maxRetries, which
\* getPollStatus shows, and only the call after it leaves poll = false and
\* retry = 0.
C21_LimitObservedBeforeReset ==
  /\ \A k \in Keys : Polling(k) => Entry(k).retry = sinceStart[k]
  /\ last.op = "checkEtag" =>
       \A b \in last.before :
         (b.poll /\ HasMarker(b) /\ b.etag = last.etag) =>
           IF b.retry < Limit
           THEN /\ Entry(last.key) = [b EXCEPT !.retry = b.retry + 1]
                /\ getPollStatus(cache, last.key) =
                     {[polling |-> TRUE, retries |-> b.retry + 1]}
           ELSE /\ b.retry = Limit
                /\ Entry(last.key) = [etag |-> last.etag, poll |-> FALSE, retry |-> 0]

C21_Witness ==
  /\ last.op = "checkEtag"
  /\ Limit = DEFAULT_OPTIONS.maxRetries
  /\ \E b \in last.before :
       b.poll /\ HasMarker(b) /\ b.etag = last.etag /\ b.retry = Limit - 1
  /\ sinceStart[last.key] = Limit
  /\ getPollStatus(cache, last.key) = {[polling |-> TRUE, retries |-> Limit]}

\* what C22 says of a step whose last call was made for key k
C22_KeysIndependentOf(k) ==
  /\ \A j \in TwoKeys \ {k} : EntryOf(cache', j) = EntryOf(cache, j)
  /\ CheckEtagStep =>
       /\ Len(timers') \in {Len(timers), Len(timers) + 1}
       /\ Len(timers') = Len(timers) + 1 <=>
            /\ Polling(k)
            /\ MarkerUnchanged(k, last'.etag) \/ HasPendingRecord(last'.data)
            /\ UnderRetryLimit(k)

\* C22: with two keys in one coordinator, a call of setPoll, stopPolling,
\* getPollStatus or checkEtag for one key leaves the entry of the other key as
\* it was, and checkEtag schedules a refresh exactly when the entry of its own
\* key, its arguments and the options say so, whatever the other entry is.
C22_KeysIndependent ==
  [][C22_KeysIndependentOf(last'.key)]_vars

C22_Witness ==
  /\ last.op = "checkEtag"
  /\ last.key = "global"
  /\ \E b \in last.before : b.poll /\ ~(HasMarker(b) /\ b.etag = last.etag)
  /\ ~Polling("global")
  /\ Polling("test-key")
  /\ Entry("test-key").retry > 0
  /\ MarkerUnchanged("test-key", last.etag)

\* what C23 says of the call checkEtag(dispatch, k, e, d)
C23_NoMarkerNeverContinuesOf(k, e, d) ==
  (Exists(k) /\ ~HasMarker(Entry(k)) /\ ~HasPendingRecord(d)) => Terminates(k, e)

\* C23: an entry that setPoll created has no marker until the first checkEtag
\* for its key, and that checkEtag, whatever etag it is given (the empty string
\* too), with no pending record, schedules nothing and leaves {etag, poll:
\* false, retry: 0}.
C23_NoMarkerNeverContinues ==
  [][/\ CheckEtagStep => OfCall(C23_NoMarkerNeverContinuesOf)
     /\ \A k \in Keys :
          /\ (~Exists(k) /\ last' # last /\ last'.op = "setPoll" /\ last'.key = k) =>
               ~HasMarker(cache'[CacheKey(k)])
          /\ (Exists(k) /\ ~HasMarker(Entry(k)) /\ ~CheckEtagStep) =>
               ~HasMarker(cache'[CacheKey(k)])]_vars

C23_Witness ==
  /\ last.op = "checkEtag"
  /\ last.etag = ""
  /\ \E b \in last.before : b.poll /\ b.retry = 0 /\ ~HasMarker(b)
  /\ Entry(last.key) = [etag |-> "", poll |-> FALSE, retry |-> 0]
  /\ nextId = 0
  /\ Limit > 0

\* C24: the poll flag of a key goes from false or absent to true only in a
\* setPoll call for that key, and a refresh is scheduled for a key only by a
\* step that finds its entry polling; so a key setPoll was never called for
\* never polls and never has a refresh scheduled.
C24_PollingOnlyBySetPoll ==
  [][\A k \in Keys :
       /\ (~Polling(k) /\ Polling(k)') =>
            /\ last' # last
            /\ last'.op = "setPoll"
            /\ last'.key = k
       /\ sinceStart'[k] > sinceStart[k] => Polling(k)]_vars

C24_Witness ==
  /\ last.op = "checkEtag"
  /\ Limit > 0
  /\ "isStatusPending" \in DOMAIN options
  /\ last.data.given
  /\ \E i \in DOMAIN last.data.items : last.data.items[i] = "pending"
  /\ \E b \in last.before : ~b.poll /\ b.retry = 0 /\ HasMarker(b) /\ b.etag = last.etag
  /\ ~Polling(last.key)
  /\ nextId = 0

====
